---- MODULE Spec2Model ----
(***************************************************************************)
(* Var2Stat: dump_config.py derives a configuration document from a        *)
(* variable font's named instances; generate_fonts.py resolves that        *)
(* document (or a hand-edited one) back into per-variant axis values and   *)
(* naming metadata and writes one static font per variant.                 *)
(*                                                                         *)
(* Numbers.  Axis coordinates are fractional (fvar stores 16.16 fixed      *)
(* point, fontTools hands them out as floats).  A number n/Scale is        *)
(* modelled by the integer n, so Whole(650) is 650 and Whole(650) - 1 is   *)
(* the largest modelled number below 650.                                  *)
(*                                                                         *)
(* JSON values.  A value of the "axes" mapping is a number or null.  null  *)
(* (Python None) is modelled by the empty tuple and the number v by <<v>>. *)
(*                                                                         *)
(* Dictionaries.  A Python dict keeps insertion order, and assigning to an *)
(* existing key keeps the key's position: [keys |-> sequence of keys,      *)
(* items |-> function on the keys].                                        *)
(*                                                                         *)
(* Strings.  A family name is a sequence of one-character strings, so that *)
(* str.replace(' ', '') can be computed; a variant name is a string.       *)
(***************************************************************************)
EXTENDS Integers, Sequences, FiniteSets, TLC

VARIABLES
    font,            \* the font file on disk (fvar axes and instances, name records, OS/2, head)
    origin,          \* who wrote the configuration file: "dump_config" or "user"
    pc,              \* position of the two commands
    font_info,       \* the value returned by dump_config.extract_font_info
    instance_names,  \* instance_name computed in each iteration of the loop of extract_font_info
    config,          \* the configuration document (the -config.json file)
    font_name,       \* generate_from_config's font_name
    font_defaults,   \* generate_from_config's font_defaults
    k,               \* number of variants generate_from_config's loop has passed
    success_count,   \* generate_from_config's success_count
    log,             \* one entry per call of generate_variant: what it printed and returned
    output           \* the files saved in the output folder: file name -> static font

vars == <<font, origin, pc, font_info, instance_names, config, font_name,
          font_defaults, k, success_count, log, output>>

----------------------------------------------------------------------------
(* Bounds of the model *)

Scale == 2
MaxInstances == 3
MaxVariants == 2

----------------------------------------------------------------------------
(* Numbers, None and dictionaries *)

Whole(n) == n * Scale

Abs(x) == IF x < 0 THEN -x ELSE x

\* int(x) had it rounded to the nearest integer instead
IntRound(x) == IF x >= 0 THEN (2 * x + Scale) \div (2 * Scale)
               ELSE -((2 * (-x) + Scale) \div (2 * Scale))
\* int(x): the fractional part is discarded, towards zero
PyInt(x) == IF x >= 0 THEN x \div Scale ELSE -((-x) \div Scale)

None == <<>>
Num(v) == <<v>>

EmptyDict == [keys |-> <<>>, items |-> <<>>]

\* d[key] = value, had an existing key kept its value
DictSetFirstWins(d, key, value) ==
    IF key \in DOMAIN d.items
    THEN d
    ELSE [keys |-> Append(d.keys, key), items |-> (key :> value) @@ d.items]
\* d[key] = value
DictSet(d, key, value) ==
    IF key \in DOMAIN d.items
    THEN [keys |-> d.keys, items |-> [d.items EXCEPT ![key] = value]]
    ELSE [keys |-> Append(d.keys, key), items |-> (key :> value) @@ d.items]

\* d.get(key)
DictGet(m, key) == IF key \in DOMAIN m THEN m[key] ELSE None

RECURSIVE Join(_)
Join(chars) == IF chars = <<>> THEN "" ELSE Head(chars) \o Join(Tail(chars))

----------------------------------------------------------------------------
(* dump_config.py *)

weight_keys == [n \in 1..9 |-> Whole(100 * n)]

weight_names ==
    (Whole(100) :> "Thin") @@ (Whole(200) :> "ExtraLight") @@ (Whole(300) :> "Light") @@
    (Whole(400) :> "Regular") @@ (Whole(500) :> "Medium") @@ (Whole(600) :> "SemiBold") @@
    (Whole(700) :> "Bold") @@ (Whole(800) :> "ExtraBold") @@ (Whole(900) :> "Black")

\* min(), had the last of several nearest keys won
RECURSIVE MinLastWins(_, _, _, _)
MinLastWins(keys, weight_value, best, n) ==
    IF n > Len(keys) THEN best
    ELSE IF Abs(keys[n] - weight_value) <= Abs(best - weight_value)
         THEN MinLastWins(keys, weight_value, keys[n], n + 1)
         ELSE MinLastWins(keys, weight_value, best, n + 1)
ClosestLastWins(weight_value) == MinLastWins(weight_keys, weight_value, weight_keys[1], 2)

\* min(weight_names.keys(), key=lambda x: abs(x - weight_value)): the first
\* key, in the dict's order, whose distance no other key undercuts
RECURSIVE MinByDistance(_, _, _, _)
MinByDistance(keys, weight_value, best, n) ==
    IF n > Len(keys) THEN best
    ELSE IF Abs(keys[n] - weight_value) < Abs(best - weight_value)
         THEN MinByDistance(keys, weight_value, keys[n], n + 1)
         ELSE MinByDistance(keys, weight_value, best, n + 1)
Closest(weight_value) == MinByDistance(weight_keys, weight_value, weight_keys[1], 2)

\* the name the loop body of extract_font_info gives instance number i (0-based)
InstanceName(coordinates, i) ==
    IF "wght" \in DOMAIN coordinates
    THEN IF coordinates["wght"] \in DOMAIN weight_names
         THEN weight_names[coordinates["wght"]]
         ELSE weight_names[Closest(coordinates["wght"])]
                  \o ToString(PyInt(coordinates["wght"]))
    ELSE "Instance" \o ToString(i + 1)

\* the names computed by the first n iterations of the loop
InstanceNames(instances, n) == [i \in 1..n |-> InstanceName(instances[i], i - 1)]

\* variants after the first n iterations of the loop
RECURSIVE CollectVariants(_, _)
CollectVariants(instances, n) ==
    IF n = 0 THEN EmptyDict
    ELSE LET variants == CollectVariants(instances, n - 1)
             instance_name == InstanceName(instances[n], n - 1)
         IN  DictSet(variants, instance_name, instances[n])

\* the family name: the Windows Unicode record with nameID 1, else the file's stem
OriginalFontName(f) == IF 1 \in DOMAIN f.names THEN f.names[1].str ELSE f.stem

\* axis_values of create_config_structure for one axis
RECURSIVE AxisValues(_, _, _)
AxisValues(variants, axis_tag, n) ==
    IF n = 0 THEN <<>>
    ELSE LET variant_axes == variants.items[variants.keys[n]]
             axis_values  == AxisValues(variants, axis_tag, n - 1)
         IN  IF axis_tag \in DOMAIN variant_axes
             THEN Append(axis_values, variant_axes[axis_tag])
             ELSE axis_values

GlobalAxis(variants, axis_tag) ==
    LET axis_values == AxisValues(variants, axis_tag, Len(variants.keys))
    IN  IF /\ axis_values # <<>>
           /\ \A n \in 1..Len(axis_values) : axis_values[n] = axis_values[1]
        THEN Num(axis_values[1])
        ELSE None

GlobalAxes(info) ==
    [axis_tag \in DOMAIN info.axes_defaults |-> GlobalAxis(info.variants, axis_tag)]

\* optimized_variant, had it kept every axis of the variant
OptimizedVariantKeepAll(global_axes, variant_axes) ==
    [mapping |-> TRUE, axes |-> [axis_tag \in DOMAIN variant_axes |-> Num(variant_axes[axis_tag])]]
\* optimized_variant of one variant
OptimizedVariant(global_axes, variant_axes) ==
    LET kept == {axis_tag \in DOMAIN variant_axes :
                    DictGet(global_axes, axis_tag) # Num(variant_axes[axis_tag])}
    IN  [mapping |-> TRUE, axes |-> [axis_tag \in kept |-> Num(variant_axes[axis_tag])]]

CreateConfigStructure(info) ==
    LET global_axes == GlobalAxes(info)
    IN  [font_name |-> info.font_name,
         axes      |-> global_axes,
         variants  |-> [keys  |-> info.variants.keys,
                        items |-> [name \in DOMAIN info.variants.items |->
                                      OptimizedVariant(global_axes, info.variants.items[name])]]]

\* dump_config.extract_font_info, for a font with an fvar table
ExtractFontInfo(f) ==
    [font_name     |-> OriginalFontName(f),
     axes_defaults |-> f.axes,
     variants      |-> CollectVariants(f.instances, Len(f.instances))]

----------------------------------------------------------------------------
(* generate_fonts.py *)

\* str.encode("utf-16-be"): the bytes of a name record, which toUnicode() reads back
Encode(s) == [encoding |-> "utf-16-be", str |-> s]

\* font_name.replace(' ', '')
StripSpaces(chars) == SelectSeq(chars, LAMBDA c : c # " ")

\* merged_axes, had the document's axes been applied on top of the variant's
MergedAxesGlobalWins(global_axes, variant_config) == global_axes @@ variant_config.axes
\* merged_axes: a copy of global_axes, updated with the variant's own axes
MergedAxes(global_axes, variant_config) == variant_config.axes @@ global_axes

\* resolved_axes, had None not been replaced by the font's default
ResolvedAxesNoDefault(merged_axes, defaults) ==
    [axis \in {a \in DOMAIN merged_axes : a \in DOMAIN defaults} |-> merged_axes[axis]]
\* resolved_axes
ResolvedAxes(merged_axes, defaults) ==
    [axis \in {a \in DOMAIN merged_axes : a \in DOMAIN defaults} |->
        IF merged_axes[axis] = None THEN Num(defaults[axis]) ELSE merged_axes[axis]]

\* weight_value = axes.get("wght", 400)
WeightValue(axes) == IF "wght" \in DOMAIN axes THEN axes["wght"] ELSE Num(Whole(400))

\* int(None) and None >= 700 raise TypeError
NamingRaises(f, axes) ==
    /\ WeightValue(axes) = None
    /\ f.usWeightClass # None \/ f.macStyle # None

FullName(family, variant_name) ==
    IF variant_name = "Regular" THEN Join(family) ELSE Join(family) \o " " \o variant_name

PostScriptName(family, variant_name) == Join(StripSpaces(family)) \o "-" \o variant_name

\* macStyle |= 0x01 and macStyle &= ~0x01
SetBold(macStyle) == IF macStyle % 2 = 0 THEN macStyle + 1 ELSE macStyle
ClearBold(macStyle) == IF macStyle % 2 = 1 THEN macStyle - 1 ELSE macStyle

\* weight_value >= 700, had the comparison been strict
IsBoldAbove(weight_value) == weight_value > Whole(700)
\* weight_value >= 700
IsBold(weight_value) == weight_value >= Whole(700)

\* the font after update_font_names(font, font_name, variant_name, axes)
UpdateFontNames(f, family, variant_name, axes) ==
    LET weight_value == WeightValue(axes)[1]
    IN  [f EXCEPT
           !.names = [id \in DOMAIN f.names |->
                        CASE id = 1 -> Encode(family)
                          [] id = 2 -> Encode(variant_name)
                          [] id = 4 -> Encode(FullName(family, variant_name))
                          [] id = 6 -> Encode(PostScriptName(family, variant_name))
                          [] OTHER  -> f.names[id]],
           !.usWeightClass = IF f.usWeightClass # None THEN Num(PyInt(weight_value)) ELSE None,
           !.macStyle = IF f.macStyle = None THEN None
                        ELSE IF IsBold(weight_value) THEN Num(SetBold(f.macStyle[1]))
                        ELSE Num(ClearBold(f.macStyle[1]))]

\* instancer.instantiateVariableFont followed by remove_variation_tables
Instantiate(f, axes) ==
    [f EXCEPT !.has_fvar = FALSE, !.axes = <<>>, !.instances = <<>>, !.location = axes]

\* output_filename
OutputFilename(family, variant_name) ==
    Join(StripSpaces(family)) \o "-" \o variant_name \o ".ttf"

----------------------------------------------------------------------------
(* The fonts and documents the commands are run on *)

Tags == {"wght", "wdth"}
DocTags == Tags \cup {"slnt"}

FontFamily == <<"O", " ", "S">>
UserFamily == <<"M", "y", " ", "F">>

AxisCatalogs ==
    { [t \in S |-> IF t = "wght" THEN Whole(300) ELSE Whole(100)] : S \in (SUBSET Tags) \ {{}} }

CoordinateValues(tag) ==
    IF tag = "wght" THEN {Whole(400), Whole(700)} ELSE {Whole(75), Whole(100)}

WeightProbes ==
    { Whole(650), Whole(650) - 1, Whole(650) + 1, Whole(700) - 1, Whole(150), Whole(150) + 1,
      Whole(50), 0, -1, 1 - Whole(2), Whole(100), Whole(900), Whole(950), Whole(1000),
      Whole(400) + 1, Whole(850) }

\* sparse coordinates over the axes of a catalog
Coordinates(catalog) ==
    UNION { [S -> UNION {CoordinateValues(t) : t \in S}] : S \in SUBSET DOMAIN catalog }

WellTyped(coordinates) == \A t \in DOMAIN coordinates : coordinates[t] \in CoordinateValues(t)

InstanceLists(catalog) ==
    UNION { [1..n -> {c \in Coordinates(catalog) : WellTyped(c)}] : n \in 0..MaxInstances }

NameRecords(ids, family) ==
    [id \in ids |-> IF id = 1 THEN Encode(family) ELSE Encode("Old")]

VariableFont(catalog, instances, ids, weight_class, mac_style) ==
    [stem |-> <<"f">>, has_fvar |-> TRUE, axes |-> catalog, instances |-> instances,
     names |-> NameRecords(ids, FontFamily), usWeightClass |-> weight_class,
     macStyle |-> mac_style, location |-> <<>>]

\* a font without an fvar table
StaticFont ==
    [stem |-> <<"f">>, has_fvar |-> FALSE, axes |-> <<>>, instances |-> <<>>,
     names |-> NameRecords({1, 2, 4, 6}, FontFamily), usWeightClass |-> Num(400),
     macStyle |-> Num(0), location |-> <<>>]

\* the fonts dump_config is run on
DumpFonts ==
    UNION { { VariableFont(c, l, {1, 2, 4, 6}, Num(400), Num(0)) : l \in InstanceLists(c) } :
              c \in AxisCatalogs }
    \cup { VariableFont([wght |-> Whole(300)], <<[wght |-> w]>>, {2, 4, 6}, Num(400), Num(0)) :
              w \in WeightProbes }
    \cup {StaticFont}

\* the fonts generate_fonts is run on with a document the user wrote
UserFonts ==
    { VariableFont([wght |-> Whole(300), wdth |-> Whole(100)], <<>>, {1, 2, 3, 4, 6},
                   Num(700), Num(3)),
      VariableFont([wdth |-> Whole(100)], <<>>, {1, 2, 4, 6}, Num(500), Num(1)),
      VariableFont([wght |-> Whole(300)], <<>>, {1}, None, None),
      VariableFont([wght |-> Whole(300)], <<>>, {2, 4, 6}, Num(400), Num(0)),
      StaticFont }

GlobalValue(tag) ==
    IF tag = "wght" THEN Whole(500) ELSE IF tag = "wdth" THEN Whole(75) ELSE 0

UserGlobalAxes ==
    UNION { [S -> {None} \cup {Num(GlobalValue(t)) : t \in S}] : S \in SUBSET DocTags }

WellTypedAxes(axes) ==
    /\ \A t \in DOMAIN axes : axes[t] \in {None, Num(GlobalValue(t))}
    /\ "slnt" \in DOMAIN axes => axes["slnt"] # None

\* a variant's own axes; mapping = FALSE is a value that is no JSON object
UserVariantConfigs ==
    { [mapping |-> TRUE, axes |-> <<>>],
      [mapping |-> TRUE, axes |-> [wght |-> Num(Whole(700))]],
      [mapping |-> TRUE, axes |-> [wght |-> Num(Whole(700) - 1), wdth |-> Num(Whole(100)),
                                   slnt |-> Num(0 - Whole(10))]],
      [mapping |-> FALSE, axes |-> <<>>] }

UserVariantName(n) ==
    IF n = 1 THEN "Regular" ELSE IF n = 2 THEN "Bold" ELSE "Instance" \o ToString(n)

UserVariants ==
    { [keys  |-> [n \in 1..Len(l) |-> UserVariantName(n)],
       items |-> [name \in {UserVariantName(n) : n \in 1..Len(l)} |->
                     l[CHOOSE n \in 1..Len(l) : UserVariantName(n) = name]]] :
          l \in UNION { [1..n -> UserVariantConfigs] : n \in 0..MaxVariants } }

UserConfigs ==
    { [font_name |-> name, axes |-> axes, variants |-> variants] :
          name \in {<<>>, UserFamily},
          axes \in {a \in UserGlobalAxes : WellTypedAxes(a)},
          variants \in UserVariants }

NoFontInfo == [font_name |-> <<>>, axes_defaults |-> <<>>, variants |-> EmptyDict]
NoConfig == [font_name |-> <<>>, axes |-> <<>>, variants |-> EmptyDict]

----------------------------------------------------------------------------
(* The two commands *)

Blank ==
    /\ font_info = NoFontInfo
    /\ instance_names = <<>>
    /\ font_name = <<>>
    /\ font_defaults = <<>>
    /\ k = 0
    /\ success_count = 0
    /\ log = <<>>
    /\ output = EmptyDict

\* dump_config is run on a font, and generate_fonts on the document it wrote
Init ==
    /\ origin = "dump_config"
    /\ pc = "dump"
    /\ font \in DumpFonts
    /\ config = NoConfig
    /\ Blank

\* generate_fonts is run on a document the user wrote
InitGenerate ==
    /\ origin = "user"
    /\ pc = "config_ready"
    /\ font \in UserFonts
    /\ config \in UserConfigs
    /\ Blank

\* dump_config.main on a font without an fvar table: extract_font_info raises
DumpAbort ==
    /\ pc = "dump"
    /\ ~font.has_fvar
    /\ pc' = "aborted"
    /\ UNCHANGED <<font, origin, font_info, instance_names, config, font_name,
                   font_defaults, k, success_count, log, output>>

\* dump_config.main: extract_font_info, create_config_structure, json.dump
DumpConfig ==
    /\ pc = "dump"
    /\ font.has_fvar
    /\ font_info' = ExtractFontInfo(font)
    /\ instance_names' = InstanceNames(font.instances, Len(font.instances))
    /\ config' = CreateConfigStructure(font_info')
    /\ pc' = "config_ready"
    /\ UNCHANGED <<font, origin, font_name, font_defaults, k, success_count, log, output>>

\* generate_from_config ends with an exception before its loop: the
\* configuration or the font file is missing or invalid
GenerateAbort ==
    /\ pc = "config_ready"
    /\ pc' = "aborted"
    /\ UNCHANGED <<font, origin, font_info, instance_names, config, font_name,
                   font_defaults, k, success_count, log, output>>

\* generate_from_config up to its loop
StartGenerate ==
    /\ pc = "config_ready"
    /\ font.has_fvar
    /\ 1 \in DOMAIN font.names
    /\ font_defaults' = font.axes
    /\ font_name' = IF config.font_name = <<>> THEN OriginalFontName(font)
                    ELSE config.font_name
    /\ k' = 0
    /\ success_count' = 0
    /\ pc' = "variants"
    /\ UNCHANGED <<font, origin, font_info, instance_names, config, log, output>>

\* success_count, had every call of generate_variant been counted
SuccessCountAll(count, ok) == count + 1
\* if generate_variant(...): success_count += 1
SuccessCount(count, ok) == IF ok THEN count + 1 ELSE count

\* what generate_variant does for one variant, should the collaborators
\* (instantiation, saving) fail at `failure`
VariantResult(variant_name, variant_config, failure) ==
    IF ~variant_config.mapping
    THEN [entry |-> [variant_name |-> variant_name, resolved |-> <<>>, ok |-> FALSE],
          saved |-> <<>>]
    ELSE LET resolved == ResolvedAxes(MergedAxes(config.axes, variant_config), font_defaults)
             ok       == failure = "none" /\ ~NamingRaises(font, resolved)
         IN  [entry |-> [variant_name |-> variant_name, resolved |-> <<resolved>>, ok |-> ok],
              saved |-> IF ok
                        THEN <<UpdateFontNames(Instantiate(font, resolved), font_name,
                                               variant_name, resolved)>>
                        ELSE <<>>]

\* one iteration of the loop of generate_from_config
GenerateVariant ==
    /\ pc = "variants"
    /\ k < Len(config.variants.keys)
    /\ \E failure \in {"none", "instantiate", "naming", "save"} :
          LET variant_name == config.variants.keys[k + 1]
              result == VariantResult(variant_name, config.variants.items[variant_name],
                                      failure)
          IN  /\ log' = Append(log, result.entry)
              /\ output' = IF result.saved = <<>> THEN output
                           ELSE DictSet(output, OutputFilename(font_name, variant_name),
                                        result.saved[1])
              /\ success_count' = SuccessCount(success_count, result.entry.ok)
    /\ k' = k + 1
    /\ UNCHANGED <<font, origin, pc, font_info, instance_names, config, font_name,
                   font_defaults>>

\* the loop is over: the summary is printed and generate_from_config returns
FinishGenerate ==
    /\ pc = "variants"
    /\ k = Len(config.variants.keys)
    /\ pc' = "done"
    /\ UNCHANGED <<font, origin, font_info, instance_names, config, font_name,
                   font_defaults, k, success_count, log, output>>

NextGenerate ==
    \/ GenerateAbort
    \/ StartGenerate
    \/ GenerateVariant
    \/ FinishGenerate

Next ==
    \/ DumpAbort
    \/ DumpConfig
    \/ NextGenerate

Spec == Init /\ [][Next]_vars

SpecGenerate == InitGenerate /\ [][NextGenerate]_vars

----------------------------------------------------------------------------
(* Properties *)

Dumped == origin = "dump_config" /\ pc # "dump" /\ font.has_fvar

\* the instances whose entry of the variants mapping no later instance replaced
Survivors ==
    {n \in 1..Len(instance_names) :
        \A m \in (n + 1)..Len(instance_names) : instance_names[m] # instance_names[n]}

\* t is x with its fractional part discarded
Truncated(x, t) ==
    /\ Whole(Abs(t)) <= Abs(x)
    /\ Abs(x) < Whole(Abs(t) + 1)
    /\ (x < 0 => t <= 0)
    /\ (x >= 0 => t >= 0)

TruncatedString(x) ==
    CHOOSE s \in {ToString(t) : t \in {u \in (0 - Abs(x))..Abs(x) : Truncated(x, u)}} : TRUE

\* C1: in a run of dump_config followed by generate_fonts, the axes resolved
\* for the variant named after an instance hold, for every axis that instance
\* declares, that instance's coordinate.
C1_RoundTrip ==
    origin = "dump_config" =>
        \A n \in 1..Len(instance_names) : \A e \in 1..Len(log) :
            (log[e].variant_name = instance_names[n] /\ log[e].resolved # <<>>) =>
                \A t \in DOMAIN font.instances[n] :
                    /\ t \in DOMAIN log[e].resolved[1]
                    /\ log[e].resolved[1][t] = Num(font.instances[n][t])

\* C2, as claimed: the resolved mapping of every variant has an entry for
\* every axis of the font, and no entry is None.
C2_TotalForAnyGlobalAxes ==
    \A e \in 1..Len(log) :
        log[e].resolved # <<>> =>
            /\ DOMAIN font_defaults \subseteq DOMAIN log[e].resolved[1]
            /\ \A a \in DOMAIN log[e].resolved[1] : log[e].resolved[1][a] # None

\* C2, amended: when every axis of the font is a key of the document's axes
\* or of the variant's own axes, the resolved mapping has an entry for every
\* axis of the font; and no entry of a resolved mapping is ever None.
C2_TotalOnDeclaredAxes ==
    \A e \in 1..Len(log) :
        log[e].resolved # <<>> =>
            LET declared == DOMAIN config.axes
                              \cup DOMAIN config.variants.items[log[e].variant_name].axes
            IN  /\ DOMAIN font_defaults \subseteq declared
                     => DOMAIN font_defaults \subseteq DOMAIN log[e].resolved[1]
                /\ \A a \in DOMAIN log[e].resolved[1] : log[e].resolved[1][a] # None

C2_Witness ==
    /\ origin = "user"
    /\ log # <<>>
    /\ log[1].resolved # <<>>
    /\ DOMAIN font_defaults = {"wght", "wdth"}
    /\ DOMAIN config.axes = {"wght", "wdth"}
    /\ config.axes["wght"] = None
    /\ config.variants.items[log[1].variant_name].axes = <<>>
    /\ log[1].resolved[1]["wght"] = Num(font_defaults["wght"])

\* C3: an axis of the font on which two instances differ, or which some
\* instance does not declare, is None in the document's axes.
C3_UnsetOnDisagreementOrAbsence ==
    Dumped =>
        \A tag \in DOMAIN font.axes :
            (\/ \E m, n \in 1..Len(font.instances) :
                   /\ tag \in DOMAIN font.instances[m]
                   /\ tag \in DOMAIN font.instances[n]
                   /\ font.instances[m][tag] # font.instances[n][tag]
             \/ \E n \in 1..Len(font.instances) : tag \notin DOMAIN font.instances[n])
            => config.axes[tag] = None

\* C4: the keys of the document's axes are the axes of the font; an axis
\* that every instance declares with the same value has that value there,
\* and no variant of the document lists it.
C4_AgreedAxesHoisted ==
    Dumped =>
        /\ DOMAIN config.axes = DOMAIN font.axes
        /\ \A tag \in DOMAIN font.axes :
              (/\ font.instances # <<>>
               /\ \A n \in 1..Len(font.instances) :
                     /\ tag \in DOMAIN font.instances[n]
                     /\ font.instances[n][tag] = font.instances[1][tag])
              => /\ config.axes[tag] = Num(font.instances[1][tag])
                 /\ \A name \in DOMAIN config.variants.items :
                       tag \notin DOMAIN config.variants.items[name].axes

C4_Witness ==
    /\ Dumped
    /\ Len(font.instances) = 3
    /\ Len(config.variants.keys) = 2
    /\ \A n \in 1..3 : DOMAIN font.instances[n] = {"wght", "wdth"}
    /\ \A n \in 1..3 : font.instances[n]["wdth"] = Whole(75)
    /\ config.axes["wdth"] = Num(Whole(75))
    /\ config.axes["wght"] = None

\* C5: an axis of the font that the document's axes or the variant lists
\* resolves to the variant's value if the variant lists it, else to the
\* document's value if that is a number, else to the font's default; and
\* only axes of the font are resolved.
C5_Precedence ==
    \A e \in 1..Len(log) :
        log[e].resolved # <<>> =>
            LET resolved == log[e].resolved[1]
                own      == config.variants.items[log[e].variant_name].axes
            IN  /\ \A tag \in DOMAIN font_defaults \cap (DOMAIN config.axes \cup DOMAIN own) :
                      /\ tag \in DOMAIN resolved
                      /\ resolved[tag] =
                            IF tag \in DOMAIN own THEN own[tag]
                            ELSE IF config.axes[tag] # None THEN config.axes[tag]
                            ELSE Num(font_defaults[tag])
                /\ \A tag \in DOMAIN resolved : tag \in DOMAIN font_defaults

C5_Witness ==
    /\ origin = "user"
    /\ Len(log) = 2
    /\ log[2].resolved # <<>>
    /\ config.axes = [wght |-> Num(Whole(500)), wdth |-> None, slnt |-> Num(0)]
    /\ config.variants.items[log[2].variant_name].axes = [wght |-> Num(Whole(700))]
    /\ log[2].resolved[1] = [wght |-> Num(Whole(700)), wdth |-> Num(Whole(100))]

\* C6: generate_from_config calls generate_variant once for each variant, in
\* the document's order, whatever the earlier calls returned; only the
\* steps before the loop abort the run; the count is the number of calls
\* that returned True, and the files saved are theirs.
C6_FaultIsolation ==
    /\ pc = "aborted" => log = <<>>
    /\ pc \in {"variants", "done"} =>
          /\ Len(log) = k
          /\ k <= Len(config.variants.keys)
          /\ \A n \in 1..k : log[n].variant_name = config.variants.keys[n]
          /\ success_count = Cardinality({n \in 1..k : log[n].ok})
          /\ success_count <= Len(config.variants.keys)
          /\ DOMAIN output.items =
                {OutputFilename(font_name, log[n].variant_name) : n \in {m \in 1..k : log[m].ok}}
          /\ pc = "variants" /\ k < Len(config.variants.keys) => ENABLED GenerateVariant
          /\ pc = "variants" /\ k = Len(config.variants.keys) => ENABLED FinishGenerate
          /\ pc = "done" => k = Len(config.variants.keys)

C6_Witness ==
    /\ pc = "done"
    /\ Len(log) = 2
    /\ ~log[1].ok
    /\ log[1].resolved # <<>>
    /\ log[2].ok
    /\ success_count = 1

\* C7, as claimed: an instance with wght = 650 is named "Bold650".
C7_Bold650 ==
    \A n \in 1..Len(instance_names) :
        ("wght" \in DOMAIN font.instances[n] /\ font.instances[n]["wght"] = Whole(650))
            => instance_names[n] = "Bold650"

\* C7, amended: an instance with wght = 650, which is as near to 600 as to
\* 700, is named "SemiBold650".
C7_SemiBold650 ==
    \A n \in 1..Len(instance_names) :
        ("wght" \in DOMAIN font.instances[n] /\ font.instances[n]["wght"] = Whole(650))
            => instance_names[n] = "SemiBold650"

C7_Witness ==
    /\ instance_names # <<>>
    /\ font.instances[1] = [wght |-> Whole(650)]
    /\ "SemiBold650" \in DOMAIN config.variants.items

\* C8: the instance at position n (counted from 1) is named by the label of
\* its wght if that is one of 100, ..., 900; else by the label of the
\* nearest of these, the lower one of two equally near, followed by the
\* wght without its fractional part; and "Instance<n>" if it has no wght.
C8_WeightNameRule ==
    \A n \in 1..Len(instance_names) :
        LET coordinates == font.instances[n]
        IN  IF "wght" \notin DOMAIN coordinates
            THEN instance_names[n] = "Instance" \o ToString(n)
            ELSE LET w == coordinates["wght"]
                 IN  IF \E h \in 1..9 : w = Whole(100 * h)
                     THEN \E h \in 1..9 :
                             w = Whole(100 * h) /\ instance_names[n] = weight_names[Whole(100 * h)]
                     ELSE \E h \in 1..9 :
                             /\ \A j \in 1..9 :
                                   \/ Abs(Whole(100 * h) - w) < Abs(Whole(100 * j) - w)
                                   \/ /\ Abs(Whole(100 * h) - w) = Abs(Whole(100 * j) - w)
                                      /\ h <= j
                             /\ instance_names[n] =
                                   weight_names[Whole(100 * h)] \o TruncatedString(w)

C8_Witness ==
    /\ instance_names # <<>>
    /\ font.instances[1] = [wght |-> Whole(650) + 1]
    /\ instance_names[1] = "Bold650"

\* C9: the font saved for a variant has the variant's name as subfamily,
\* the family name alone as full name exactly when the variant is
\* "Regular" and "<family> <variant>" otherwise, the family name without
\* spaces + "-" + variant as PostScript name, the resolved wght without
\* its fractional part (400 if wght is not resolved) as weight class, and
\* the bold bit of macStyle set iff that weight is at least 700.
C9_NamingDerivation ==
    \A n \in 1..Len(log) :
        log[n].ok =>
            LET name     == log[n].variant_name
                saved    == output.items[OutputFilename(font_name, name)]
                resolved == log[n].resolved[1]
                weight   == IF "wght" \in DOMAIN resolved THEN resolved["wght"][1]
                            ELSE Whole(400)
            IN  /\ 1 \in DOMAIN saved.names => saved.names[1].str = font_name
                /\ 2 \in DOMAIN saved.names => saved.names[2].str = name
                /\ 4 \in DOMAIN saved.names =>
                      /\ name = "Regular" => saved.names[4].str = Join(font_name)
                      /\ name # "Regular" =>
                            saved.names[4].str = Join(font_name) \o " " \o name
                /\ 6 \in DOMAIN saved.names =>
                      saved.names[6].str =
                          Join(SelectSeq(font_name, LAMBDA c : c # " ")) \o "-" \o name
                /\ saved.usWeightClass # None =>
                      /\ Truncated(weight, saved.usWeightClass[1])
                      /\ "wght" \notin DOMAIN resolved => saved.usWeightClass[1] = 400
                /\ saved.macStyle # None =>
                      (saved.macStyle[1] % 2 = 1 <=> weight >= Whole(700))

C9_Witness ==
    /\ Len(log) = 2
    /\ log[1].ok
    /\ log[2].ok
    /\ font_name = UserFamily
    /\ log[2].resolved[1] = [wght |-> Num(Whole(700)), wdth |-> Num(Whole(75))]
    /\ output.items["MyF-Bold.ttf"].names[4].str = "My F Bold"
    /\ output.items["MyF-Bold.ttf"].names[6].str = "MyF-Bold"
    /\ output.items["MyF-Bold.ttf"].macStyle = Num(3)
    /\ output.items["MyF-Regular.ttf"].names[4].str = "My F"

\* C10: extract_font_info succeeds whatever names the instances get; the
\* variants mapping has one entry per distinct name, with the coordinates
\* of the last instance of that name, and the document's axes and variants
\* are computed from these entries alone.
C10_CollisionOverwrites ==
    /\ (pc = "dump" /\ font.has_fvar) => ENABLED DumpConfig
    /\ Dumped =>
          /\ Len(instance_names) = Len(font.instances)
          /\ DOMAIN font_info.variants.items =
                {instance_names[n] : n \in 1..Len(instance_names)}
          /\ Len(font_info.variants.keys) = Cardinality(DOMAIN font_info.variants.items)
          /\ \A n \in 1..Len(font_info.variants.keys) :
                font_info.variants.keys[n] \in DOMAIN font_info.variants.items
          /\ \A n \in Survivors :
                font_info.variants.items[instance_names[n]] = font.instances[n]
          /\ config.variants.keys = font_info.variants.keys
          /\ \A tag \in DOMAIN font.axes :
                LET declared == {n \in Survivors : tag \in DOMAIN font.instances[n]}
                    values   == {font.instances[n][tag] : n \in declared}
                IN  config.axes[tag] =
                        IF Cardinality(values) = 1
                        THEN Num(CHOOSE v \in values : TRUE)
                        ELSE None

C10_Witness ==
    /\ Dumped
    /\ Len(font.instances) = 3
    /\ instance_names = <<"Regular", "Bold", "Regular">>
    /\ font.instances[1] # font.instances[3]
    /\ font_info.variants.keys = <<"Regular", "Bold">>
    /\ font_info.variants.items["Regular"] = font.instances[3]

====
